---- MODULE Spec2Model ----
(***************************************************************************)
(* A model of bashlex/data_tools.py: the tree lineariser (ast2list) and    *)
(* its inverse (list2ast), the character tokenizer (char_tokenizer), the   *)
(* English tokenizer (basic_tokenizer) and the template adapters           *)
(* (ast2template, cmd2template).                                           *)
(*                                                                         *)
(* Strings are sequences of one-character strings.  A syntax node is a     *)
(* record [symbol, children]; an optional node is a sequence of length 0   *)
(* or 1.                                                                   *)
(***************************************************************************)
EXTENDS Integers, Sequences, FiniteSets, TLC

VARIABLES
    pc,         \* position of the driver of the specification in use
    node,       \* the syntax tree handed to ast2list
    order,      \* the order argument of ast2list / list2ast
    flat,       \* the flat sequence (search_history)
    cut,        \* "full", "prefix" or "padded": what was done to flat
    ast,        \* the optional node list2ast returned
    sentence,   \* the sentence handed to a tokenizer
    base_tokenizer, \* char_tokenizer's base tokenizer: <<>> for None, else
                \* <<the token list it returns for the sentence>>
    chars,      \* what char_tokenizer returned
    cmd,        \* a command text, as its words
    cmd2,       \* the same command with its flags in another order
    opts,       \* the keyword arguments of the call
    trees,      \* the trees bash_parser returned for cmd and cmd2
    templates,  \* what cmd2template returned for cmd and cmd2
    rendered,   \* what ast2template returned for the two trees
    commands,   \* what ast2command returned for the two trees
    picked,     \* the words the sentence of basic_tokenizer is made of
    lemmatizer, \* which lemmatizer lmtzr is
    recognizer, \* which word table bash.is_english_word looks words up in
    normalized, \* what basic_tokenizer returned and printed
    renormalized \* the same for the tokens joined by spaces

treeVars == <<node, order, flat, cut, ast>>
charVars == <<base_tokenizer, chars>>
cmdVars == <<cmd, cmd2, opts, trees, templates, rendered, commands>>
tokVars == <<picked, lemmatizer, recognizer, normalized, renormalized>>
vars == <<pc, treeVars, sentence, charVars, cmdVars, tokVars>>

IdleTree == node = <<>> /\ order = "dfs" /\ flat = <<>> /\ cut = "full" /\ ast = <<>>
IdleTok ==
    /\ picked = <<>> /\ lemmatizer = "identity" /\ recognizer = "plain"
    /\ normalized = <<>> /\ renormalized = <<>>
IdleChar == base_tokenizer = <<>> /\ chars = <<>>
IdleCmd ==
    /\ cmd = <<>> /\ cmd2 = <<>> /\ opts = <<>> /\ trees = <<>>
    /\ templates = <<>> /\ rendered = <<>> /\ commands = <<>>

(***************************************************************************)
(* Bounds                                                                  *)
(***************************************************************************)
MaxNodes == 4

\* node.symbol values; the terminator and the padding symbol are not among them
Symbols == {"a", "b"}

NO_EXPAND == "<NO_EXPAND>"
PAD == "<PAD>"

(***************************************************************************)
(* Trees with exactly n nodes, and forests (child lists) with n nodes.     *)
(***************************************************************************)
RECURSIVE TreesN(_), ForestsN(_)
TreesN(n) ==
    IF n = 0 THEN {}
    ELSE {[symbol |-> s, children |-> f] : s \in Symbols, f \in ForestsN(n - 1)}

ForestsN(n) ==
    IF n = 0 THEN {<<>>}
    ELSE UNION {{<<t>> \o f : t \in TreesN(k), f \in ForestsN(n - k)} : k \in 1..n}

Trees == UNION {TreesN(n) : n \in 1..MaxNodes}

(***************************************************************************)
(* ast2list: data_tools.py lines 160-167.                                  *)
(***************************************************************************)
RECURSIVE ast2list_NoLeafTerminator(_, _, _)
ast2list_NoLeafTerminator(n, ord, list) ==
    IF ord = "dfs"
    THEN LET RECURSIVE kids(_, _)
             kids(i, acc) ==
                 IF i > Len(n.children) THEN acc
                 ELSE kids(i + 1, ast2list_NoLeafTerminator(n.children[i], ord, acc))
             l2 == kids(1, Append(list, n.symbol))
         IN  IF n.children = <<>> THEN l2 ELSE Append(l2, NO_EXPAND)
    ELSE list

RECURSIVE ast2list_ReversedChildren(_, _, _)
ast2list_ReversedChildren(n, ord, list) ==
    IF ord = "dfs"
    THEN LET RECURSIVE kids(_, _)
             kids(i, acc) ==
                 IF i < 1 THEN acc
                 ELSE kids(i - 1, ast2list_ReversedChildren(n.children[i], ord, acc))
         IN  Append(kids(Len(n.children), Append(list, n.symbol)), NO_EXPAND)
    ELSE list

RECURSIVE ast2list_TerminatorPerChild(_, _, _)
ast2list_TerminatorPerChild(n, ord, list) ==
    IF ord = "dfs"
    THEN LET RECURSIVE kids(_, _)
             kids(i, acc) ==
                 IF i > Len(n.children) THEN acc
                 ELSE kids(i + 1,
                           Append(ast2list_TerminatorPerChild(n.children[i], ord, acc),
                                  NO_EXPAND))
         IN  Append(kids(1, Append(list, n.symbol)), NO_EXPAND)
    ELSE list

RECURSIVE ast2list(_, _, _)
ast2list(n, ord, list) ==
    IF ord = "dfs"
    THEN LET RECURSIVE kids(_, _)
             kids(i, acc) ==
                 IF i > Len(n.children) THEN acc
                 ELSE kids(i + 1, ast2list(n.children[i], ord, acc))
         IN  Append(kids(1, Append(list, n.symbol)), NO_EXPAND)
    ELSE list

(***************************************************************************)
(* list2ast: data_tools.py lines 170-172 delegates to                      *)
(* normalizer.list_to_ast, which is not part of the source at hand; the    *)
(* delineariser is the one the specification describes (section 4.4): a    *)
(* cursor into the sequence, a terminator or the padding symbol ends the   *)
(* node being expanded, and so does the end of the input.                  *)
(***************************************************************************)
RECURSIVE list_to_ast_node(_, _), list_to_ast_children(_, _, _)
list_to_ast_node(list, i) ==
    IF i > Len(list) THEN [node |-> <<>>, next |-> i]
    ELSE IF list[i] \in {NO_EXPAND, PAD} THEN [node |-> <<>>, next |-> i + 1]
    ELSE LET r == list_to_ast_children(list, i + 1, <<>>)
         IN  [node |-> <<[symbol |-> list[i], children |-> r.children]>>,
              next |-> r.next]

list_to_ast_children(list, i, acc) ==
    LET r == list_to_ast_node(list, i)
    IN  IF r.node = <<>> THEN [children |-> acc, next |-> r.next]
        ELSE list_to_ast_children(list, r.next, acc \o r.node)

list_to_ast(list, ord) ==
    IF ord = "dfs" THEN list_to_ast_node(list, 1).node ELSE <<>>

list2ast(list, ord) == list_to_ast(list, ord)

(***************************************************************************)
(* Measures of trees and flat sequences used by the properties.            *)
(***************************************************************************)
RECURSIVE NodeCount(_), PreOrder(_)
NodeCount(n) ==
    LET RECURSIVE sum(_)
        sum(i) == IF i > Len(n.children) THEN 0
                  ELSE NodeCount(n.children[i]) + sum(i + 1)
    IN  1 + sum(1)

PreOrder(n) ==
    LET RECURSIVE cat(_)
        cat(i) == IF i > Len(n.children) THEN <<>>
                  ELSE PreOrder(n.children[i]) \o cat(i + 1)
    IN  <<n.symbol>> \o cat(1)

PreOrderOpt(t) == IF t = <<>> THEN <<>> ELSE PreOrder(t[1])

IsTerminator(x) == x = NO_EXPAND

Terminators(list) == SelectSeq(list, IsTerminator)

NonTerminator(x) == x /= NO_EXPAND

NonTerminators(list) == SelectSeq(list, NonTerminator)

(***************************************************************************)
(* The tree specification: linearise a tree, optionally truncate or pad    *)
(* the sequence, delinearise it.                                           *)
(***************************************************************************)
InitTree ==
    /\ pc = "tree"
    /\ node \in Trees
    /\ order \in {"dfs", "bfs"}
    /\ flat = <<>>
    /\ cut = "full"
    /\ ast = <<>>
    /\ sentence = <<>>
    /\ IdleChar
    /\ IdleCmd
    /\ IdleTok

\* search_history = ast2list(norm_tree, 'dfs', [])
Linearize ==
    /\ pc = "tree"
    /\ flat' = ast2list(node, order, <<>>)
    /\ pc' = "flat"
    /\ UNCHANGED <<node, order, cut, ast, sentence, charVars, cmdVars, tokVars>>

\* a producer that stopped before the sequence was complete
Truncate ==
    /\ pc = "flat"
    /\ cut = "full"
    /\ flat /= <<>>
    /\ \E k \in 0..(Len(flat) - 1) : flat' = SubSeq(flat, 1, k)
    /\ cut' = "prefix"
    /\ UNCHANGED <<pc, node, order, ast, sentence, charVars, cmdVars, tokVars>>

\* search_history + ['<PAD>']
Pad ==
    /\ pc = "flat"
    /\ cut = "full"
    /\ flat' = Append(flat, PAD)
    /\ cut' = "padded"
    /\ UNCHANGED <<pc, node, order, ast, sentence, charVars, cmdVars, tokVars>>

Delinearize ==
    /\ pc = "flat"
    /\ ast' = list2ast(flat, order)
    /\ pc' = "ast"
    /\ UNCHANGED <<node, order, flat, cut, sentence, charVars, cmdVars, tokVars>>

NextTree == Linearize \/ Truncate \/ Pad \/ Delinearize

SpecTree == InitTree /\ [][NextTree]_vars

(***************************************************************************)
(* Properties of the tree lineariser and delineariser.                     *)
(***************************************************************************)
RECURSIVE WellFormedTree(_)
WellFormedTree(n) ==
    /\ n.symbol \notin {NO_EXPAND, PAD}
    /\ \A i \in 1..Len(n.children) : WellFormedTree(n.children[i])

RECURSIVE ChildCounts(_)
ChildCounts(n) ==
    LET RECURSIVE cat(_)
        cat(i) == IF i > Len(n.children) THEN <<>>
                  ELSE ChildCounts(n.children[i]) \o cat(i + 1)
    IN  <<Len(n.children)>> \o cat(1)

\* every proper non-empty prefix holds more symbols than terminators: each
\* terminator closes a node opened before it, and the root closes last
Balanced(list) ==
    \A k \in 1..(Len(list) - 1) :
        Len(NonTerminators(SubSeq(list, 1, k))) > Len(Terminators(SubSeq(list, 1, k)))

\* C1: list2ast(ast2list(T, 'dfs', [])) is the tree T again: the same
\* pre-order symbol sequence, the same node count and the same number and
\* order of children at every node.
C1_RoundTrip ==
    (pc = "ast" /\ order = "dfs" /\ cut = "full") =>
        /\ Len(ast) = 1
        /\ PreOrder(ast[1]) = PreOrder(node)
        /\ NodeCount(ast[1]) = NodeCount(node)
        /\ ChildCounts(ast[1]) = ChildCounts(node)
        /\ ast[1] = node

C1_Witness ==
    /\ pc = "ast" /\ order = "dfs" /\ cut = "full"
    /\ Len(node.children) = 2
    /\ node.children[1].children /= <<>>
    /\ node.children[2].children = <<>>
    /\ ast = <<node>>

\* C2: delinearising a strict prefix of a well-formed flat sequence ends
\* without error in a well-formed tree (no tree only for the empty prefix)
\* whose pre-order symbols are the non-terminator symbols of the prefix, in
\* order: the nodes still open when the input runs out are closed there.
C2_PrefixTolerance ==
    (pc = "ast" /\ order = "dfs" /\ cut = "prefix") =>
        /\ Len(ast) <= 1
        /\ flat /= <<>> => Len(ast) = 1
        /\ \A i \in 1..Len(ast) : WellFormedTree(ast[i])
        /\ PreOrderOpt(ast) = NonTerminators(flat)

C2_Witness ==
    /\ pc = "ast" /\ order = "dfs" /\ cut = "prefix"
    /\ Len(flat) >= 4
    /\ Terminators(flat) /= <<>>
    /\ flat[Len(flat)] /= NO_EXPAND
    /\ Len(ast) = 1
    /\ NodeCount(ast[1]) = 3
    /\ ast[1] /= node

\* C3: ast2list(node, 'dfs', []) emits each node's symbol before its
\* children's subtrees and one terminator after each node's children: the
\* symbols are the tree's pre-order, every terminator closes an open node,
\* and terminators, non-terminator symbols and nodes are equal in number.
C3_TerminatorPerNode ==
    (pc \in {"flat", "ast"} /\ order = "dfs" /\ cut = "full") =>
        /\ NonTerminators(flat) = PreOrder(node)
        /\ Len(Terminators(flat)) = Len(NonTerminators(flat))
        /\ Len(Terminators(flat)) = NodeCount(node)
        /\ flat[Len(flat)] = NO_EXPAND
        /\ Balanced(flat)

C3_Witness ==
    /\ pc = "flat" /\ order = "dfs" /\ cut = "full"
    /\ Len(node.children) = 2
    /\ node.children[1].children = <<>>
    /\ Len(flat) = 2 * MaxNodes

(***************************************************************************)
(* char_tokenizer: data_tools.py lines 27-39.                              *)
(***************************************************************************)
MaxTokens == 3
MaxTokenLen == 2

\* the characters the tokens of the character tokenizer are made of
TokenChars == {"a", "b"}

\* _SPACE, line 22: one list element, never equal to a single character
SPACE == "<SPACE>"

StringsUpTo(n) == UNION {[1..k -> TokenChars] : k \in 0..n}

TokenLists == UNION {[1..k -> StringsUpTo(MaxTokenLen)] : k \in 0..MaxTokens}

\* for token in tokens: for c in token: chars.append(c); chars.append(_SPACE)
RECURSIVE char_loop(_, _, _)
char_loop(tokens, i, acc) ==
    IF i > Len(tokens) THEN acc
    ELSE char_loop(tokens, i + 1, Append(acc \o tokens[i], SPACE))

\* chars[:-1]
ButLast(s) == IF s = <<>> THEN <<>> ELSE SubSeq(s, 1, Len(s) - 1)

char_tokenizer_KeepTrailing(sent, base) ==
    LET tokens == IF base /= <<>> THEN base[1] ELSE <<sent>>
    IN  char_loop(tokens, 1, <<>>)

char_tokenizer(sent, base) ==
    LET tokens == IF base /= <<>> THEN base[1] ELSE <<sent>>
    IN  ButLast(char_loop(tokens, 1, <<>>))

InitChar ==
    /\ pc = "sentence"
    /\ \/ /\ base_tokenizer = <<>>
          /\ sentence \in StringsUpTo(MaxTokenLen)
       \/ /\ sentence = <<>>
          /\ base_tokenizer \in {<<t>> : t \in TokenLists}
    /\ chars = <<>>
    /\ IdleTree
    /\ IdleCmd
    /\ IdleTok

CharTokenize ==
    /\ pc = "sentence"
    /\ chars' = char_tokenizer(sentence, base_tokenizer)
    /\ pc' = "chars"
    /\ UNCHANGED <<treeVars, sentence, base_tokenizer, cmdVars, tokVars>>

NextChar == CharTokenize

SpecChar == InitChar /\ [][NextChar]_vars

\* the tokens char_tokenizer walks over
WordTokens == IF base_tokenizer /= <<>> THEN base_tokenizer[1] ELSE <<sentence>>

IsSeparator(x) == x = SPACE

\* the pieces of a list between its separators
RECURSIVE SplitAtSeparators(_, _, _)
SplitAtSeparators(list, i, cur) ==
    IF i > Len(list) THEN <<cur>>
    ELSE IF list[i] = SPACE THEN <<cur>> \o SplitAtSeparators(list, i + 1, <<>>)
    ELSE SplitAtSeparators(list, i + 1, Append(cur, list[i]))

\* C4: char_tokenizer returns the characters of each token in order with
\* exactly one "<SPACE>" between two successive tokens and none after the
\* last: n >= 1 tokens give n-1 separators and cutting the result at its
\* separators gives the tokens back; no tokens give the empty list.
C4_SeparatorsBetween ==
    pc = "chars" =>
        IF WordTokens = <<>> THEN chars = <<>>
        ELSE /\ Len(SelectSeq(chars, IsSeparator)) = Len(WordTokens) - 1
             /\ SplitAtSeparators(chars, 1, <<>>) = WordTokens

C4_Witness ==
    /\ pc = "chars"
    /\ Len(WordTokens) = 3
    /\ \A i \in 1..3 : WordTokens[i] /= <<>>
    /\ Len(SelectSeq(chars, IsSeparator)) = 2
    /\ chars[Len(chars)] /= SPACE

(***************************************************************************)
(* The command adapters: data_tools.py lines 136-198.  The parser          *)
(* (normalizer.normalize_ast) and the renderer (normalizer.to_tokens) are  *)
(* not part of the source at hand; they are modelled from sections 4.3     *)
(* and 6 of the specification on one-level commands: a utility followed by *)
(* flags and arguments.                                                    *)
(***************************************************************************)
MaxArgs == 3

Utilities == {"ls"}

\* the flags, in alphabetical order
FlagOrder == <<"-a", "-l">>

FlagWords == {FlagOrder[i] : i \in 1..Len(FlagOrder)}

\* argument literals, each with the type tag the parser gives it
ArgTypes == ("f" :> "File") @@ ("1" :> "Number")

ArgWords == DOMAIN ArgTypes

NUM == "_NUM"

Cmds ==
    UNION {{<<u>> \o w : u \in Utilities, w \in [1..k -> FlagWords \cup ArgWords]} :
           k \in 0..MaxArgs}

\* the commands that differ from c at most in the order of its flags
FlagReorderings(c) ==
    {d \in [1..Len(c) -> Utilities \cup FlagWords \cup ArgWords] :
        /\ \A i \in 1..Len(c) : c[i] \notin FlagWords => d[i] = c[i]
        /\ \A i \in 1..Len(c) : c[i] \in FlagWords => d[i] \in FlagWords
        /\ \A f \in FlagWords :
               Cardinality({i \in 1..Len(c) : c[i] = f})
                   = Cardinality({i \in 1..Len(c) : d[i] = f})}

Options ==
    [normalize_digits : BOOLEAN, normalize_long_pattern : BOOLEAN,
     recover_quotation : BOOLEAN, arg_type_only : BOOLEAN,
     loose_constraints : BOOLEAN]

\* the parser: the root holds the utility, its children the flags and
\* arguments in the order of the text; digit normalisation replaces a
\* numeric literal by the numeral placeholder
normalize_ast(c, normalize_digits, normalize_long_pattern, recover_quotation) ==
    [kind |-> "headcommand", value |-> c[1], arg_type |-> "",
     children |->
        [i \in 1..(Len(c) - 1) |->
            IF c[i + 1] \in FlagWords
            THEN [kind |-> "flag", value |-> c[i + 1], arg_type |-> "",
                  children |-> <<>>]
            ELSE [kind |-> "argument",
                  value |-> IF normalize_digits /\ ArgTypes[c[i + 1]] = "Number"
                            THEN NUM ELSE c[i + 1],
                  arg_type |-> ArgTypes[c[i + 1]],
                  children |-> <<>>]]]

FlagRank(f) == CHOOSE i \in 1..Len(FlagOrder) : FlagOrder[i] = f

IsFlagNode(n) == n.kind = "flag"

\* the flag nodes in alphabetical order (a sorted copy: the tree is left alone)
RECURSIVE SortedFlags(_)
SortedFlags(fs) ==
    IF fs = <<>> THEN <<>>
    ELSE LET rest == SortedFlags(Tail(fs))
             f == Head(fs)
             before == SelectSeq(rest, LAMBDA x : FlagRank(x.value) < FlagRank(f.value))
             after == SelectSeq(rest, LAMBDA x : FlagRank(x.value) >= FlagRank(f.value))
         IN  before \o <<f>> \o after

\* the renderer: the utility, then one token per child; with
\* ignore_flag_order the flags come out in alphabetical order, with
\* arg_type_only an argument comes out as its type tag
to_tokens(n, loose_constraints, ignore_flag_order, arg_type_only) ==
    LET kids == n.children
        sorted == SortedFlags(SelectSeq(kids, IsFlagNode))
        slot(i) == Len(SelectSeq(SubSeq(kids, 1, i), IsFlagNode))
        tok(i) ==
            IF kids[i].kind = "flag"
            THEN IF ignore_flag_order THEN sorted[slot(i)].value ELSE kids[i].value
            ELSE IF arg_type_only THEN kids[i].arg_type ELSE kids[i].value
    IN  <<n.value>> \o [i \in 1..Len(kids) |-> tok(i)]

\* ' '.join(tokens)
RECURSIVE join(_)
join(tokens) ==
    IF tokens = <<>> THEN <<>>
    ELSE IF Len(tokens) = 1 THEN tokens
    ELSE <<Head(tokens), " ">> \o join(Tail(tokens))

\* lines 136-140
bash_tokenizer(c, normalize_digits, normalize_long_pattern, recover_quotation) ==
    to_tokens(normalize_ast(c, normalize_digits, normalize_long_pattern,
                            recover_quotation), FALSE, FALSE, FALSE)

\* lines 143-147
bash_parser(c, normalize_digits, normalize_long_pattern, recover_quotation) ==
    normalize_ast(c, normalize_digits, normalize_long_pattern, recover_quotation)

\* lines 175-176
ast2tokens(n, loose_constraints, ignore_flag_order) ==
    to_tokens(n, loose_constraints, ignore_flag_order, FALSE)

\* lines 179-180
ast2command(n, loose_constraints, ignore_flag_order) ==
    join(to_tokens(n, loose_constraints, ignore_flag_order, FALSE))

ast2template_KeepFlagOrder(n, loose_constraints, arg_type_only) ==
    join(to_tokens(n, loose_constraints, FALSE, arg_type_only))

\* lines 183-188
ast2template(n, loose_constraints, arg_type_only) ==
    join(to_tokens(n, loose_constraints, TRUE, arg_type_only))

\* lines 191-198
cmd2template(c, normalize_digits, normalize_long_pattern, recover_quotation, arg_type_only, loose_constraints) ==
    LET tree == normalize_ast(c, normalize_digits, normalize_long_pattern,
                              recover_quotation)
    IN  ast2template(tree, loose_constraints, arg_type_only)

InitCmd ==
    /\ pc = "cmd"
    /\ cmd \in Cmds
    /\ cmd2 \in FlagReorderings(cmd)
    /\ opts \in Options
    /\ trees = <<>>
    /\ templates = <<>>
    /\ rendered = <<>>
    /\ commands = <<>>
    /\ sentence = <<>>
    /\ IdleTree
    /\ IdleChar
    /\ IdleTok

Template(c) ==
    cmd2template(c, opts.normalize_digits, opts.normalize_long_pattern,
                 opts.recover_quotation, opts.arg_type_only, opts.loose_constraints)

Parsed(c) ==
    bash_parser(c, opts.normalize_digits, opts.normalize_long_pattern,
                opts.recover_quotation)

Cmd2Template ==
    /\ pc = "cmd"
    /\ templates' = <<Template(cmd), Template(cmd2)>>
    /\ pc' = "templated"
    /\ UNCHANGED <<treeVars, sentence, charVars, tokVars, cmd, cmd2, opts, trees, rendered,
                   commands>>

BashParser ==
    /\ pc = "templated"
    /\ trees' = <<Parsed(cmd), Parsed(cmd2)>>
    /\ pc' = "parsed"
    /\ UNCHANGED <<treeVars, sentence, charVars, tokVars, cmd, cmd2, opts, templates,
                   rendered, commands>>

Ast2Template ==
    /\ pc = "parsed"
    /\ rendered' = [i \in 1..2 |->
                       ast2template(trees[i], opts.loose_constraints,
                                    opts.arg_type_only)]
    /\ pc' = "rendered"
    /\ UNCHANGED <<treeVars, sentence, charVars, tokVars, cmd, cmd2, opts, trees, templates,
                   commands>>

Ast2Command ==
    /\ pc = "rendered"
    /\ commands' = [i \in 1..2 |->
                       ast2command(trees[i], opts.loose_constraints, FALSE)]
    /\ pc' = "commands"
    /\ UNCHANGED <<treeVars, sentence, charVars, tokVars, cmd, cmd2, opts, trees, templates,
                   rendered>>

NextCmd == Cmd2Template \/ BashParser \/ Ast2Template \/ Ast2Command

SpecCmd == InitCmd /\ [][NextCmd]_vars

\* C10: cmd2template(text) is ast2template(parse(text)) and nothing else, and
\* ast2template renders with ignore_flag_order = True: two commands that
\* differ only in the order of their flags get the same template string
\* (their command strings, rendered with the flag order kept, stay as
\* written), and the trees are what the parser returned after rendering.
C10_TemplateCanonical ==
    (pc \in {"rendered", "commands"}) =>
        /\ templates[1] = templates[2]
        /\ rendered = templates
        /\ trees = <<Parsed(cmd), Parsed(cmd2)>>
        /\ pc = "commands" =>
              \A i \in 1..2 :
                  commands[i] = join(to_tokens(trees[i], opts.loose_constraints,
                                               FALSE, FALSE))

C10_Witness ==
    /\ pc = "commands"
    /\ Len(cmd) = 4
    /\ cmd /= cmd2
    /\ commands[1] /= commands[2]
    /\ templates[1] = templates[2]
    /\ rendered = templates
    /\ opts.arg_type_only
    /\ \E i \in 2..4 : cmd[i] \in ArgWords

(***************************************************************************)
(* basic_tokenizer: data_tools.py lines 41-133.  A string is a sequence of *)
(* one-character strings; sentences are single lines whose only            *)
(* whitespace is the space.                                                *)
(***************************************************************************)
LowerSeq ==
    <<"a", "b", "c", "d", "e", "f", "g", "h", "i", "j", "k", "l", "m",
    "n", "o", "p", "q", "r", "s", "t", "u", "v", "w", "x", "y", "z">>

UpperSeq ==
    <<"A", "B", "C", "D", "E", "F", "G", "H", "I", "J", "K", "L", "M",
    "N", "O", "P", "Q", "R", "S", "T", "U", "V", "W", "X", "Y", "Z">>

Lower == {LowerSeq[i] : i \in 1..Len(LowerSeq)}

Upper == {UpperSeq[i] : i \in 1..Len(UpperSeq)}

Digit == {"0", "1", "2", "3", "4", "5", "6", "7", "8", "9"}

Whitespace == {" "}

\* the backquote character (U+0060), which cannot be written in a string here
BACKQUOTE == "<backquote>"

\* str.lower()
LowerChar(c) ==
    IF c \in Upper THEN LowerSeq[CHOOSE i \in 1..Len(UpperSeq) : UpperSeq[i] = c] ELSE c

lower(w) == [i \in 1..Len(w) |-> LowerChar(w[i])]

\* str.isupper() of one character
isupper(c) == c \in Upper

\* str.islower(): a cased character, and no upper-case one
islower(w) ==
    /\ \E i \in 1..Len(w) : w[i] \in Lower
    /\ \A i \in 1..Len(w) : w[i] \notin Upper

\* str.isalpha()
isalpha(w) == w /= <<>> /\ \A i \in 1..Len(w) : w[i] \in Lower \cup Upper

startswith(w, p) == Len(w) >= Len(p) /\ SubSeq(w, 1, Len(p)) = p

endswith(w, p) == Len(w) >= Len(p) /\ SubSeq(w, Len(w) - Len(p) + 1, Len(w)) = p

\* str.strip()
RECURSIVE strip(_)
strip(w) ==
    IF w = <<>> THEN w
    ELSE IF w[1] \in Whitespace THEN strip(Tail(w))
    ELSE IF w[Len(w)] \in Whitespace THEN strip(SubSeq(w, 1, Len(w) - 1))
    ELSE w

\* str.replace(old, new), and re.sub of a literal pattern by a literal
\* replacement: the occurrences from the left, not overlapping
RECURSIVE replace(_, _, _)
replace(s, old, new) ==
    IF Len(s) < Len(old) THEN s
    ELSE IF SubSeq(s, 1, Len(old)) = old
         THEN new \o replace(SubSeq(s, Len(old) + 1, Len(s)), old, new)
    ELSE <<s[1]>> \o replace(Tail(s), old, new)

\* re.sub('^\'', '"', sentence), line 58
sub_leading_quote(s) ==
    IF s /= <<>> /\ s[1] = "'" THEN <<"\"">> \o Tail(s) ELSE s

\* re.sub('\'$', '"', sentence), line 59
sub_trailing_quote(s) ==
    IF s /= <<>> /\ s[Len(s)] = "'" THEN SubSeq(s, 1, Len(s) - 1) \o <<"\"">> ELSE s

\* the number of whitespace characters of s from index i on
RECURSIVE space_run(_, _)
space_run(s, i) ==
    IF i <= Len(s) /\ s[i] \in Whitespace THEN 1 + space_run(s, i + 1) ELSE 0

\* re.sub('(p\s+)|(p$)', ' ', sentence) for a punctuation mark p, lines 61-64
RECURSIVE sub_punctuation(_, _, _)
sub_punctuation(s, p, i) ==
    IF i > Len(s) THEN <<>>
    ELSE IF s[i] = p /\ space_run(s, i + 1) > 0
         THEN <<" ">> \o sub_punctuation(s, p, i + 1 + space_run(s, i + 1))
    ELSE IF s[i] = p /\ i = Len(s) THEN <<" ">>
    ELSE <<s[i]>> \o sub_punctuation(s, p, i + 1)

\* lines 44-70: the sentence as handed to the splitting expression
canonicalize(s) ==
    LET s1 == replace(s, <<BACKQUOTE, "'">>, <<"\"">>)
        s2 == replace(s1, <<BACKQUOTE, BACKQUOTE>>, <<"\"">>)
        s3 == replace(s2, <<"'", "'">>, <<"\"">>)
        s4 == replace(s3, <<" ", "'">>, <<" ", "\"">>)
        s5 == replace(s4, <<"'", " ">>, <<"\"", " ">>)
        s6 == replace(s5, <<BACKQUOTE>>, <<"\"">>)
        s7 == replace(s6, <<"(">>, <<"(", " ">>)
        s8 == replace(s7, <<")">>, <<" ", ")">>)
        s9 == sub_trailing_quote(sub_leading_quote(s8))
        s10 == sub_punctuation(s9, ",", 1)
        s11 == sub_punctuation(s10, ";", 1)
        s12 == sub_punctuation(s11, ":", 1)
        s13 == sub_punctuation(s12, ".", 1)
        s14 == replace(s13, <<"'", "s">>, <<"\\", "'", "s">>)
        s15 == replace(s14, <<"'", "r", "e">>, <<"\\", "'", "r", "e">>)
        s16 == replace(s15, <<"'", "v", "e">>, <<"\\", "'", "v", "e">>)
        s17 == replace(s16, <<"'", "d">>, <<"\\", "'", "d">>)
    IN  replace(s17, <<"'", "t">>, <<"\\", "'", "t">>)

\* the index of the first double quote of s at or after i, 0 when none
RECURSIVE next_quote(_, _)
next_quote(s, i) ==
    IF i > Len(s) THEN 0
    ELSE IF s[i] = "\"" THEN i
    ELSE next_quote(s, i + 1)

\* _WORD_SPLIT_RESPECT_QUOTES, line 20, matched at i: the index after the
\* longest run of characters other than whitespace, comma and double quote
\* and of spans from a double quote to the next one (the expression is not
\* a raw string: its "\\." is the expression \. , a literal dot, so a
\* backslash does not escape a quote).  i itself when nothing matches.
RECURSIVE match_end(_, _)
match_end(s, i) ==
    IF i > Len(s) THEN i
    ELSE IF s[i] \notin Whitespace \cup {",", "\""} THEN match_end(s, i + 1)
    ELSE IF s[i] = "\"" /\ next_quote(s, i + 1) /= 0
         THEN match_end(s, next_quote(s, i + 1) + 1)
    ELSE i

\* re.findall(_WORD_SPLIT_RESPECT_QUOTES, sentence), line 72
RECURSIVE findall(_, _)
findall(s, i) ==
    IF i > Len(s) THEN <<>>
    ELSE IF match_end(s, i) = i THEN findall(s, i + 1)
    ELSE <<SubSeq(s, i, match_end(s, i) - 1)>> \o findall(s, match_end(s, i))
(***************************************************************************)
(* The collaborators of basic_tokenizer that are not part of the source at *)
(* hand: the word tables of gazetteer, the lemmatizer, the spelling        *)
(* corrector and bash's constants and word test.  Each is the lookup       *)
(* section 6 of the specification describes, over the words of the         *)
(* vocabulary below.                                                       *)
(***************************************************************************)
W_the == <<"t", "h", "e">>
W_was == <<"w", "a", "s">>
W_wa == <<"w", "a">>
W_The == <<"T", "h", "e">>
W_Johns == <<"J", "o", "h", "n", "'", "s">>
W_John == <<"J", "o", "h", "n">>
W_john == <<"j", "o", "h", "n">>
W_dash1 == <<"-", "1">>
W_dir1 == <<"d", "i", "r", "1">>
W_quoted == <<"\"", "l", "i", "s", "t", " ", "a", "l", "l", "\"">>
W_unclosed == <<"\"", "l", "i", "s", "t", " ", "a", "l", "l">>
W_one == <<"o", "n", "e">>
W_cd == <<"c", "d">>
W_fiels == <<"f", "i", "e", "l", "s">>
W_files == <<"f", "i", "l", "e", "s">>
W_file == <<"f", "i", "l", "e">>
W_comma == <<"f", "i", "l", "e", "s", ",">>
W_parens == <<"(", "c", "d", ")">>
W_single == <<"'", "a", "l", "l", "'">>
W_dont == <<"d", "o", "n", "'", "t">>
W_backquoted == <<BACKQUOTE, "c", "d", BACKQUOTE>>
W_possessive == <<"'", "s">>

\* gazetteer.ENGLISH_STOPWORDS
ENGLISH_STOPWORDS == {W_the, W_was}

\* gazetteer.word2num
word2num == (W_one :> <<"1">>)

\* bash._NUM, bash._LONG_PATTERN
NUM_PLACEHOLDER == <<"_", "N", "U", "M">>
LONG_PATTERN == <<"_", "L", "O", "N", "G", "_", "P", "A", "T", "T", "E", "R", "N">>

\* the lemmatizers: one that knows no word, and WordNet's noun rules on the
\* words of the vocabulary
WordNetLemmas == (W_was :> W_wa) @@ (W_files :> W_file)

lemmatize(word) ==
    IF lemmatizer = "wordnet" /\ word \in DOMAIN WordNetLemmas
    THEN WordNetLemmas[word] ELSE word

\* spell_check.correction: a known misspelling is corrected, any other word
\* is returned as it is
Corrections == (W_fiels :> W_files)

correction(word) == IF word \in DOMAIN Corrections THEN Corrections[word] ELSE word

\* bash.is_english_word: the word test, either a table of plain words and
\* numerals, or one that also lists words with digits, dashes, apostrophes
\* and parentheses in them
is_english_word(word) ==
    /\ word /= <<>>
    /\ IF recognizer = "plain"
       THEN \/ \A i \in 1..Len(word) : word[i] \in Lower \cup Upper
            \/ \A i \in 1..Len(word) : word[i] \in Digit
       ELSE \A i \in 1..Len(word) :
                word[i] \in Lower \cup Upper \cup Digit \cup {"-", "'", "(", ")"}

\* re.sub(bash._DIGIT_RE, bash._NUM, word): every run of digits becomes the
\* numeral placeholder
RECURSIVE digit_run(_, _)
digit_run(w, i) == IF i <= Len(w) /\ w[i] \in Digit THEN 1 + digit_run(w, i + 1) ELSE 0

RECURSIVE sub_digits(_, _)
sub_digits(w, i) ==
    IF i > Len(w) THEN <<>>
    ELSE IF w[i] \in Digit
         THEN NUM_PLACEHOLDER \o sub_digits(w, i + digit_run(w, i))
    ELSE <<w[i]>> \o sub_digits(w, i + 1)

(***************************************************************************)
(* Lines 76-131: one turn of the loop over the words, stage by stage.  Its *)
(* result holds the tokens appended to normalized_words (none for a        *)
(* stopword, two for a possessive) and the lines printed.                  *)
(***************************************************************************)
\* lines 79-81: remove unnecessary upper cases
fold_case(word, lower_case) ==
    IF lower_case /\ Len(word) > 1 /\ isupper(word[1]) /\ islower(Tail(word))
    THEN lower(word) ELSE word

\* lines 84-85
lemmatized(word, lemmatization) == IF lemmatization THEN lemmatize(word) ELSE word

\* lines 88-90
spell_corrected(word) == IF isalpha(word) THEN correction(word) ELSE word

\* lines 91-92
spell_log(old_w, word) ==
    IF word /= old_w THEN <<<<"spell correction", old_w, word>>>> ELSE <<>>

\* lines 100-101
numeral(word) == IF word \in DOMAIN word2num THEN word2num[word] ELSE word

\* lines 106-107
open_quote(word) == IF startswith(word, <<"\"">>) THEN word ELSE <<"\"">> \o word

\* lines 108-109
close_quote(word) == IF endswith(word, <<"\"">>) THEN word ELSE word \o <<"\"">>

\* lines 104-109
force_quote(word) ==
    IF ~is_english_word(word) THEN close_quote(open_quote(word)) ELSE word

\* line 114
is_long(word) == (\E i \in 1..Len(word) : word[i] = " ") /\ Len(word) > 3

\* lines 115-118: the assertion is caught and reported
quotation_log(word, sent) ==
    IF is_long(word) /\ ~(startswith(word, <<"\"">>) /\ endswith(word, <<"\"">>))
    THEN <<<<"Quotation Error: space inside word ", sent>>>> ELSE <<>>

\* lines 119-120
long_pattern(word, normalize_long_pattern) ==
    IF is_long(word) /\ normalize_long_pattern THEN LONG_PATTERN ELSE word

\* lines 123-124
digits(word, normalize_digits) ==
    IF normalize_digits /\ ~startswith(word, <<"-">>) THEN sub_digits(word, 1) ELSE word

\* lines 127-131
possessive(word) ==
    IF endswith(word, W_possessive)
    THEN <<SubSeq(word, 1, Len(word) - 2), W_possessive>>
    ELSE <<word>>

\* lines 113-131, for the word as force-quoted
after_quote(word, log, sent, normalize_digits, normalize_long_pattern) ==
    [emit |-> possessive(digits(long_pattern(word, normalize_long_pattern),
                                normalize_digits)),
     log |-> log \o quotation_log(word, sent)]

\* lines 91-131, for the word before (old_w) and after spelling correction
after_spelling(old_w, word, sent, normalize_digits, normalize_long_pattern, remove_stop_words) ==
    IF remove_stop_words /\ word \in ENGLISH_STOPWORDS
    THEN [emit |-> <<>>, log |-> spell_log(old_w, word)]
    ELSE after_quote(force_quote(numeral(word)), spell_log(old_w, word), sent,
                     normalize_digits, normalize_long_pattern)

\* lines 76-131
normalize_word(word, sent, lower_case, normalize_digits, normalize_long_pattern, lemmatization, remove_stop_words) ==
    LET old_w == lemmatized(fold_case(strip(word), lower_case), lemmatization)
    IN  after_spelling(old_w, spell_corrected(old_w), sent, normalize_digits,
                       normalize_long_pattern, remove_stop_words)

\* lines 75-133: the loop
RECURSIVE normalize_words(_, _, _, _, _, _, _, _)
normalize_words(words, i, sent, lower_case, normalize_digits, normalize_long_pattern, lemmatization, remove_stop_words) ==
    IF i > Len(words) THEN [words |-> <<>>, log |-> <<>>]
    ELSE LET r == normalize_word(words[i], sent, lower_case, normalize_digits,
                                 normalize_long_pattern, lemmatization,
                                 remove_stop_words)
             rest == normalize_words(words, i + 1, sent, lower_case,
                                     normalize_digits, normalize_long_pattern,
                                     lemmatization, remove_stop_words)
         IN  [words |-> r.emit \o rest.words, log |-> r.log \o rest.log]

\* lines 41-133: the tokens returned and the lines printed
basic_tokenizer(sent, lower_case, normalize_digits, normalize_long_pattern, lemmatization, remove_stop_words) ==
    normalize_words(findall(canonicalize(sent), 1), 1, canonicalize(sent),
                    lower_case, normalize_digits, normalize_long_pattern,
                    lemmatization, remove_stop_words)

(***************************************************************************)
(* The tokenizer specification: a sentence of up to MaxWords words of the  *)
(* vocabulary is tokenized, and the tokens, joined by spaces, are          *)
(* tokenized again with the same arguments.                                *)
(***************************************************************************)
MaxWords == 2

Vocabulary ==
    {W_the, W_was, W_The, W_Johns, W_dash1, W_dir1, W_quoted, W_unclosed, W_one,
     W_cd, W_fiels, W_comma, W_parens, W_single, W_dont, W_backquoted}

\* ' '.join(words)
RECURSIVE join_words(_)
join_words(words) ==
    IF words = <<>> THEN <<>>
    ELSE IF Len(words) = 1 THEN words[1]
    ELSE words[1] \o <<" ">> \o join_words(Tail(words))

TokenizerOptions ==
    [lower_case : BOOLEAN, normalize_digits : BOOLEAN,
     normalize_long_pattern : BOOLEAN, lemmatization : BOOLEAN,
     remove_stop_words : BOOLEAN]

InitTok ==
    /\ pc = "sentence"
    /\ picked \in UNION {[1..k -> Vocabulary] : k \in 0..MaxWords}
    /\ sentence = join_words(picked)
    /\ opts \in TokenizerOptions
    /\ lemmatizer \in {"identity", "wordnet"}
    /\ recognizer \in {"plain", "lenient"}
    /\ normalized = <<>>
    /\ renormalized = <<>>
    /\ IdleTree
    /\ IdleChar
    /\ cmd = <<>> /\ cmd2 = <<>> /\ trees = <<>>
    /\ templates = <<>> /\ rendered = <<>> /\ commands = <<>>

Tokenized(sent) ==
    basic_tokenizer(sent, opts.lower_case, opts.normalize_digits,
                    opts.normalize_long_pattern, opts.lemmatization,
                    opts.remove_stop_words)

BasicTokenize ==
    /\ pc = "sentence"
    /\ normalized' = Tokenized(sentence)
    /\ pc' = "normalized"
    /\ UNCHANGED <<treeVars, charVars, cmdVars, sentence, picked, lemmatizer,
                   recognizer, renormalized>>

Retokenize ==
    /\ pc = "normalized"
    /\ renormalized' = Tokenized(join_words(normalized.words))
    /\ pc' = "renormalized"
    /\ UNCHANGED <<treeVars, charVars, cmdVars, sentence, picked, lemmatizer,
                   recognizer, normalized>>

NextTok == BasicTokenize \/ Retokenize

SpecTok == InitTok /\ [][NextTok]_vars

(***************************************************************************)
(* Properties of basic_tokenizer.                                          *)
(***************************************************************************)
\* the word holds a double quote, or a character rewritten to one
HasQuote(w) ==
    \/ \E i \in 1..Len(w) : w[i] \in {"\"", BACKQUOTE}
    \/ w[1] = "'"
    \/ w[Len(w)] = "'"

\* the sentence holds the word w, and no other word of it holds a quote: w
\* is split off as it is written
Holds(w) ==
    /\ \E i \in 1..Len(picked) : picked[i] = w
    /\ \A i \in 1..Len(picked) : HasQuote(picked[i]) => picked[i] = w

Emitted(w) == \E i \in 1..Len(normalized.words) : normalized.words[i] = w

Quoted(w) == <<"\"">> \o w \o <<"\"">>

QuotationErrorLogged ==
    \E i \in 1..Len(normalized.log) :
        normalized.log[i][1] = "Quotation Error: space inside word "

\* C5: with digit normalization on, the digits of dir1 are replaced by the
\* numeral placeholder, and the token -1, which begins with a dash, is
\* emitted with its digits untouched (bare, or force-quoted when the word
\* test does not know it).
C5_DashProtectsDigits ==
    (pc = "normalized" /\ opts.normalize_digits) =>
        /\ Holds(W_dir1) =>
              \/ Emitted(<<"d", "i", "r", "_", "N", "U", "M">>)
              \/ Emitted(Quoted(<<"d", "i", "r", "_", "N", "U", "M">>))
        /\ Holds(W_dash1) => (Emitted(W_dash1) \/ Emitted(Quoted(W_dash1)))

\* C6: the token John's is emitted as two successive tokens, the stem John
\* (or john, when the case is folded) and the literal 's.
C6_PossessiveSplit ==
    (pc = "normalized" /\ Holds(W_Johns)) =>
        \E i \in 1..(Len(normalized.words) - 1) :
            /\ normalized.words[i] \in {W_John, W_john}
            /\ normalized.words[i + 1] = W_possessive

\* C7: with long-pattern normalization on, a multi-word span that opens
\* with a double quote and is never closed is reported ("Quotation Error"),
\* and the same span with its closing quote is emitted as the long-pattern
\* placeholder.
C7_UnclosedQuoteReported ==
    (pc = "normalized" /\ opts.normalize_long_pattern) =>
        /\ Holds(W_unclosed) => QuotationErrorLogged
        /\ Holds(W_quoted) => Emitted(LONG_PATTERN)

\* C8: with stopword removal on, a sentence made of stopwords only gives the
\* empty token list, whichever lemmatizer is in use.
C8_StopwordsOnlyEmpty ==
    (/\ pc = "normalized"
     /\ opts.remove_stop_words
     /\ picked /= <<>>
     /\ \A i \in 1..Len(picked) : picked[i] \in ENGLISH_STOPWORDS) =>
        normalized.words = <<>>

\* C9: tokenizing the space-joined tokens again, with the same arguments,
\* gives the same tokens.
C9_Idempotent ==
    pc = "renormalized" => renormalized.words = normalized.words

====
